---- MODULE Spec2Model ----
(***************************************************************************)
(* Model of the face-search backend: the relational store (event_images   *)
(* and face_vectors), the inline ingestion of POST /images/upload, the     *)
(* Celery task process_image_task, POST /images/search and                 *)
(* GET /images/all.                                                        *)
(*                                                                         *)
(* Numbers that are floats in the program (distances, tolerances) are kept *)
(* in thousandths, so 0.4 is 400.  Face encodings are integer vectors of   *)
(* integral norm, for which the cosine distance is exact in thousandths.   *)
(***************************************************************************)
EXTENDS Integers, Sequences, FiniteSets, TLC

\* ------------------------------------------------------------------ bounds
\* files in one upload request
MaxFiles == 2
\* deliveries of process_image_task by the job runner
MaxTasks == 2
\* rows of face_vectors in the stores the search is checked on
MaxRows == 3
\* greatest offset of a listing
MaxSkip == 3

\* ------------------------------------------------------------ input domains
\* filenames a client may send (event_images.filename is unique)
Names == {"a.jpg", "b.jpg"}

\* Image bytes.  The detector is external: a byte 0 is background, a byte
\* b > 0 is a face whose landmark embedding is FaceEmbedding(b).
Contents == {<<0>>, <<1>>, <<2, 1>>, <<3>>}

\* tolerance: float = Query(0.4, ge=0.1, le=1.0)
TolMin == 100
TolDefault == 400
TolMax == 1000
Tolerances == {TolMin, TolDefault, TolMax}

\* ------------------------------------------------------------- face_service
\* _generate_face_embedding: the embedding of one detected face.
FaceEmbedding(b) ==
  CASE b = 1 -> <<5, 0>>
    [] b = 2 -> <<4, 3>>
    [] b = 3 -> <<0, 5>>
    [] OTHER -> <<0, 0>>

Embeddings == {FaceEmbedding(b) : b \in 1..3}

\* extract_face_encodings: one encoding per detection, in detection order;
\* an undecodable image or a model error gives [].
RECURSIVE extract_face_encodings(_)
extract_face_encodings(image_data) ==
  IF image_data = <<>> THEN <<>>
  ELSE LET rest == extract_face_encodings(Tail(image_data))
       IN IF Head(image_data) = 0 THEN rest
          ELSE <<FaceEmbedding(Head(image_data))>> \o rest

\* np.dot of two encodings (the encodings of the model have two components)
Dot(a, b) == a[1] * b[1] + a[2] * b[2]

\* integer square roots of the squared norms the model needs
Sqrt == [n \in 0..50 |-> IF \E r \in 0..7 : r * r = n
                         THEN CHOOSE r \in 0..7 : r * r = n ELSE 0]

\* np.linalg.norm (the encodings of the model have integral norms)
Norm(a) == Sqrt[Dot(a, a)]

\* calculate_face_distance: 1 - cosine similarity, 1.0 for a zero norm and
\* 1.0 when numpy raises (shapes that do not align).
calculate_face_distance(encoding1, encoding2) ==
  IF Len(encoding1) # Len(encoding2) THEN 1000
  ELSE LET dot_product == Dot(encoding1, encoding2)
           norm1 == Norm(encoding1)
           norm2 == Norm(encoding2)
       IN IF norm1 = 0 \/ norm2 = 0 THEN 1000
          ELSE 1000 - ((1000 * dot_product) \div (norm1 * norm2))

\* compare_single_face with the bound left out: distance < tolerance
compare_single_face_strict(query_encoding, stored_encoding, tolerance) ==
  calculate_face_distance(query_encoding, stored_encoding) < tolerance

\* compare_single_face with the comparison turned round
compare_single_face_inverted(query_encoding, stored_encoding, tolerance) ==
  calculate_face_distance(query_encoding, stored_encoding) >= tolerance

\* compare_single_face
compare_single_face(query_encoding, stored_encoding, tolerance) ==
  calculate_face_distance(query_encoding, stored_encoding) <= tolerance

\* process_search_image that takes the face detected last
process_search_image_last(image_data) ==
  LET encodings == extract_face_encodings(image_data)
  IN IF encodings = <<>>
     THEN [success |-> FALSE, encoding |-> <<>>]
     ELSE [success |-> TRUE, encoding |-> encodings[Len(encodings)]]

\* process_search_image: (success, first encoding in detection order)
process_search_image(image_data) ==
  LET encodings == extract_face_encodings(image_data)
  IN IF encodings = <<>>
     THEN [success |-> FALSE, encoding |-> <<>>]
     ELSE [success |-> TRUE, encoding |-> encodings[1]]

\* encodings_to_json: the JSON text is modelled by the list it denotes
encodings_to_json(encodings) == encodings

\* bytes.hex() / bytes.fromhex(): two hex digits per byte
RECURSIVE ToHex(_)
ToHex(data) ==
  IF data = <<>> THEN <<>>
  ELSE <<Head(data) \div 16, Head(data) % 16>> \o ToHex(Tail(data))

RECURSIVE FromHex(_)
FromHex(hex) ==
  IF Len(hex) < 2 THEN <<>>
  ELSE <<hex[1] * 16 + hex[2]>> \o FromHex(SubSeq(hex, 3, Len(hex)))

\* ----------------------------------------------------------- search_by_face
\* the loop over all_vectors: the matches, in scan order
RECURSIVE Matches(_, _, _)
Matches(all_vectors, query_encoding, tolerance) ==
  IF all_vectors = <<>> THEN <<>>
  ELSE LET vector == Head(all_vectors)
           rest == Matches(Tail(all_vectors), query_encoding, tolerance)
       IN IF compare_single_face(query_encoding, vector.encoding, tolerance)
          THEN <<[image_id |-> vector.image_id,
                  distance |-> calculate_face_distance(query_encoding,
                                                       vector.encoding)]>>
               \o rest
          ELSE rest

\* a sort that is not stable: an equal key goes in front
RECURSIVE InsertSortedUnstable(_, _)
InsertSortedUnstable(m, sorted) ==
  IF sorted = <<>> THEN <<m>>
  ELSE IF Head(sorted).distance < m.distance
       THEN <<Head(sorted)>> \o InsertSortedUnstable(m, Tail(sorted))
       ELSE <<m>> \o sorted

\* list.sort(key=distance): stable, ascending
RECURSIVE InsertSorted(_, _)
InsertSorted(m, sorted) ==
  IF sorted = <<>> THEN <<m>>
  ELSE IF Head(sorted).distance <= m.distance
       THEN <<Head(sorted)>> \o InsertSorted(m, Tail(sorted))
       ELSE <<m>> \o sorted

RECURSIVE SortMatches(_)
SortMatches(matches) ==
  IF matches = <<>> THEN <<>>
  ELSE InsertSorted(matches[Len(matches)],
                    SortMatches(SubSeq(matches, 1, Len(matches) - 1)))

\* no removal of duplicates
UniqueIdsKept(ids, seen) == ids

\* "Remove duplicates while preserving order"
RECURSIVE UniqueIds(_, _)
UniqueIds(ids, seen) ==
  IF ids = <<>> THEN <<>>
  ELSE IF Head(ids) \in seen THEN UniqueIds(Tail(ids), seen)
       ELSE <<Head(ids)>> \o UniqueIds(Tail(ids), seen \cup {Head(ids)})

\* [image_dict[img_id] for img_id in unique_ids if img_id in image_dict]
RECURSIVE OrderedImages(_, _)
OrderedImages(unique_ids, image_table) ==
  IF unique_ids = <<>> THEN <<>>
  ELSE LET id == Head(unique_ids)
           rest == OrderedImages(Tail(unique_ids), image_table)
       IN IF \E r \in 1..Len(image_table) : image_table[r].id = id
          THEN <<id>> \o rest
          ELSE rest

\* the images of the SearchResponse, as their ids in response order
SearchResult(image_table, all_vectors, query_encoding, tolerance) ==
  LET matches == SortMatches(Matches(all_vectors, query_encoding, tolerance))
      matching_image_ids == [p \in 1..Len(matches) |-> matches[p].image_id]
  IN OrderedImages(UniqueIds(matching_image_ids, {}), image_table)


\* ------------------------------------------------------------------- state
VARIABLES
  event_images,  \* table event_images: rows in id order
  face_vectors,  \* table face_vectors: rows in id (scan) order
  req,           \* the upload_images request in flight
  session,       \* its SQLAlchemy Session: pending rows, usable or not
  tasks,         \* deliveries of process_image_task so far
  ret            \* what the handler that finished last returned

vars == <<event_images, face_vectors, req, session, tasks, ret>>

\* EventImage(filename, minio_path, thumbnail_path, face_count=0).  With the
\* fallback storage the path is a data URL that holds the bytes themselves.
EventImage(id, filename, file_data) ==
  [id |-> id, filename |-> filename, minio_path |-> file_data,
   face_count |-> 0, face_encodings |-> [null |-> TRUE, json |-> <<>>]]

\* FaceVector(image_id, face_index, encoding)
FaceVector(image_id, face_index, encoding) ==
  [image_id |-> image_id, face_index |-> face_index, encoding |-> encoding]

\* the rows numbered as enumerate(encodings, 1) would number them
NewVectorsFromOne(image_id, encodings) ==
  [i \in 1..Len(encodings) |-> FaceVector(image_id, i, encodings[i])]

\* for i, encoding in enumerate(encodings): FaceVector(image_id, i, encoding)
NewVectors(image_id, encodings) ==
  [i \in 1..Len(encodings) |-> FaceVector(image_id, i - 1, encodings[i])]

IdleReq ==
  [pc |-> "idle", remaining |-> 0, filename |-> "", file_data |-> <<>>,
   image_id |-> 0, uploaded |-> <<>>]

\* new: the FaceVector objects added and not yet flushed; dirty: the
\* face_count values set on loaded images and not yet flushed
FreshSession == [new |-> <<>>, dirty |-> <<>>, active |-> TRUE]

NoRet ==
  [op |-> "none", code |-> 0, exc |-> "", uploaded |-> <<>>,
   images |-> <<>>, total |-> 0, query |-> <<>>, tolerance |-> 0,
   image_id |-> 0, faces_found |-> 0, status |-> "", error |-> "",
   scanned |-> FALSE, skip |-> 0, limit |-> 0]

\* the id the database gives the next event_images row
NextId == Len(event_images) + 1

\* db.query(EventImage).filter(EventImage.id == image_id).first()
HasImage(image_id) == \E r \in 1..Len(event_images) : event_images[r].id = image_id
ImageRow(image_id) == CHOOSE r \in 1..Len(event_images) : event_images[r].id = image_id

\* the rows of face_vectors that belong to an image
VectorsOf(vectors, image_id) ==
  SelectSeq(vectors, LAMBDA v : v.image_id = image_id)

Init ==
  /\ event_images = <<>>
  /\ face_vectors = <<>>
  /\ req = IdleReq
  /\ session = FreshSession
  /\ tasks = 0
  /\ ret = NoRet

\* ---------------------------------------------------------- the Session
\* Session.commit() that succeeds: the pending rows and the changed
\* face_count reach the tables in one transaction.
CommitVectors(vectors, new) == vectors \o new

\* a flush without a transaction around it: the rows sent before the
\* statement that raised stay
FlushFailedPartial(vectors, new) ==
  IF new = <<>> THEN vectors ELSE Append(vectors, Head(new))

\* Session.commit() whose flush raises: the transaction is rolled back, so
\* the tables keep their content.
FlushFailed(vectors, new) == vectors

\* The Session after a flush that raised: the pending objects are expunged,
\* every loaded object is expired, and the Session refuses further SQL until
\* Session.rollback() is called.
SessionAfterFailure(s) == [new |-> <<>>, dirty |-> <<>>, active |-> FALSE]

SetFaceCount(images, image_id, n) ==
  [r \in 1..Len(images) |->
     IF images[r].id = image_id THEN [images[r] EXCEPT !.face_count = n]
     ELSE images[r]]

\* a flush that sends the INSERTs only
CommitCountsDropped(images, dirty) == images

\* the UPDATEs of a flush: every face_count set since the last one
RECURSIVE CommitCounts(_, _)
CommitCounts(images, dirty) ==
  IF dirty = <<>> THEN images
  ELSE CommitCounts(SetFaceCount(images, Head(dirty).image_id,
                                 Head(dirty).face_count),
                    Tail(dirty))

\* ---------------------------------------------------------- upload_images
\* uploaded.append({...}) and the next turn of "for file in files", or the
\* return of {"uploaded": uploaded} after the last file.
FileDone(entry) ==
  LET uploaded == Append(req.uploaded, entry)
  IN IF req.remaining = 1
     THEN /\ req' = IdleReq
          /\ ret' = [NoRet EXCEPT !.op = "upload", !.code = 200,
                                  !.uploaded = uploaded]
     ELSE /\ req' = [IdleReq EXCEPT !.pc = "insert",
                                    !.remaining = req.remaining - 1,
                                    !.uploaded = uploaded]
          /\ ret' = ret

\* an exception that leaves the handler: the request ends with a 500 and
\* get_db closes the Session.
Abort(exc) ==
  /\ req' = IdleReq
  /\ session' = FreshSession
  /\ ret' = [NoRet EXCEPT !.op = "upload", !.code = 500, !.exc = exc]

\* a client posts 1..MaxFiles files
UploadBegin ==
  /\ req.pc = "idle"
  /\ \E n \in 1..MaxFiles :
       req' = [IdleReq EXCEPT !.pc = "insert", !.remaining = n]
  /\ session' = FreshSession
  /\ UNCHANGED <<event_images, face_vectors, tasks, ret>>

\* lines 36-51: read the file, store the blobs, insert the image record.
\* The commit raises when the filename is taken (unique=True) or the
\* database fails; it is outside any try.
UploadInsert ==
  /\ req.pc = "insert"
  /\ \E filename \in Names, file_data \in Contents, dbOk \in BOOLEAN :
       IF dbOk /\ \A r \in 1..Len(event_images) :
                     event_images[r].filename # filename
       THEN /\ event_images' =
                 Append(CommitCounts(event_images, session.dirty),
                        EventImage(NextId, filename, file_data))
            /\ face_vectors' = CommitVectors(face_vectors, session.new)
            /\ session' = [session EXCEPT !.new = <<>>, !.dirty = <<>>]
            /\ req' = [req EXCEPT !.pc = "ingest", !.filename = filename,
                                  !.file_data = file_data,
                                  !.image_id = NextId]
            /\ ret' = ret
       ELSE /\ Abort(IF dbOk THEN "IntegrityError" ELSE "OperationalError")
            /\ UNCHANGED <<event_images, face_vectors>>
  /\ UNCHANGED tasks

\* lines 54-73 with faces: extract, db.add every FaceVector, set face_count;
\* lines 78-93 without: "processed - no faces found".
UploadIngest ==
  /\ req.pc = "ingest"
  /\ LET encodings == extract_face_encodings(req.file_data)
     IN IF encodings # <<>>
        THEN /\ session' =
                  [session EXCEPT
                     !.new = @ \o NewVectors(req.image_id, encodings),
                     !.dirty = Append(@, [image_id |-> req.image_id,
                                          face_count |-> Len(encodings)])]
             /\ req' = [req EXCEPT !.pc = "commit"]
             /\ ret' = ret
        ELSE /\ FileDone([id |-> req.image_id, filename |-> req.filename,
                          status |-> "processed - no faces found",
                          face_count |->
                            event_images[ImageRow(req.image_id)].face_count])
             /\ session' = session
  /\ UNCHANGED <<event_images, face_vectors, tasks>>

\* lines 74-93: db.commit().  When it raises, the handler sets
\* "processing failed" without a rollback, and building the entry reads the
\* expired db_image through a Session that refuses SQL.
UploadCommit ==
  /\ req.pc = "commit"
  /\ \E dbOk \in BOOLEAN :
       IF dbOk
       THEN /\ face_vectors' = CommitVectors(face_vectors, session.new)
            /\ event_images' = CommitCounts(event_images, session.dirty)
            /\ session' = [session EXCEPT !.new = <<>>, !.dirty = <<>>]
            /\ FileDone([id |-> req.image_id, filename |-> req.filename,
                         status |-> "processed - faces found",
                         face_count |->
                           event_images'[ImageRow(req.image_id)].face_count])
       ELSE /\ face_vectors' = FlushFailed(face_vectors, session.new)
            /\ event_images' = event_images
            /\ IF SessionAfterFailure(session).active
               THEN /\ session' = SessionAfterFailure(session)
                    /\ FileDone([id |-> req.image_id,
                                 filename |-> req.filename,
                                 status |-> "processing failed",
                                 face_count |->
                                   event_images[ImageRow(req.image_id)].face_count])
               ELSE Abort("PendingRollbackError")
  /\ UNCHANGED tasks


\* ------------------------------------------------------ process_image_task
\* image.face_encodings = ...; image.face_count = ...
SetProcessed(images, image_id, encodings) ==
  [r \in 1..Len(images) |->
     IF images[r].id = image_id
     THEN [images[r] EXCEPT
             !.face_count = Len(encodings),
             !.face_encodings =
                [null |-> FALSE, json |-> encodings_to_json(encodings)]]
     ELSE images[r]]

\* a task without the else branch: every commit that succeeds is a "success"
TaskStatusNoElse(encodings) == "success"

\* "status" of the task's return when the commit succeeds: "if encodings:"
\* at line 57 against the else at line 79
TaskStatus(encodings) ==
  IF encodings # <<>> THEN "success" ELSE "no_faces"

\* line 50-54: the encodings the task extracts from the bytes of its job
TaskEncodings(image_id) ==
  LET image_data_hex == ToHex(event_images[ImageRow(image_id)].minio_path)
  IN extract_face_encodings(FromHex(image_data_hex))

\* event_images after the task's commit (lines 59-71 and 81-83), or after
\* its db.rollback() (line 94)
TaskImages(image_id, dbOk) ==
  IF dbOk THEN SetProcessed(event_images, image_id, TaskEncodings(image_id))
  ELSE event_images

\* face_vectors after the task's commit, or after its db.rollback()
TaskVectors(image_id, dbOk) ==
  LET new == NewVectors(image_id, TaskEncodings(image_id))
  IN IF dbOk THEN CommitVectors(face_vectors, new)
     ELSE FlushFailed(face_vectors, new)

\* One delivery of the job (image id, bytes as hex) runs the whole task in
\* its own Session: one commit at the end, db.rollback() when it raises.
process_image_task ==
  /\ tasks < MaxTasks
  /\ tasks' = tasks + 1
  /\ \E image_id \in 1..NextId, dbOk \in BOOLEAN :
       IF ~HasImage(image_id)
       THEN /\ ret' = [NoRet EXCEPT !.op = "task", !.image_id = image_id,
                                    !.error = "Image not found"]
            /\ UNCHANGED <<event_images, face_vectors>>
       ELSE /\ event_images' = TaskImages(image_id, dbOk)
            /\ face_vectors' = TaskVectors(image_id, dbOk)
            /\ IF dbOk
               THEN ret' = [NoRet EXCEPT
                              !.op = "task", !.image_id = image_id,
                              !.faces_found = Len(TaskEncodings(image_id)),
                              !.status = TaskStatus(TaskEncodings(image_id))]
               ELSE ret' = [NoRet EXCEPT
                              !.op = "task", !.image_id = image_id,
                              !.status = "error",
                              !.error = "OperationalError"]
  /\ UNCHANGED <<req, session>>

\* ----------------------------------------------------------- search_by_face
\* ret.scanned: the handler ran db.query(FaceVector).all()
\* ImageResponse(id, filename, url, thumbnail_url, face_count)
ImageResponse(img) ==
  [id |-> img.id, filename |-> img.filename, face_count |-> img.face_count]

\* a search that keeps the encoding of its query as a row of face_vectors
search_by_face_storing ==
  /\ \E file_data \in Contents, tolerance \in Tolerances :
       LET q == process_search_image(file_data)
       IN /\ q.success
          /\ face_vectors' = Append(face_vectors, FaceVector(0, 0, q.encoding))
          /\ ret' = [NoRet EXCEPT !.op = "search", !.code = 200,
                                  !.query = file_data,
                                  !.tolerance = tolerance,
                                  !.scanned = TRUE]
  /\ UNCHANGED <<event_images, req, session, tasks>>

search_by_face ==
  /\ \E file_data \in Contents, tolerance \in Tolerances :
       LET q == process_search_image(file_data)
           ids == SearchResult(event_images, face_vectors, q.encoding,
                               tolerance)
           results == [p \in 1..Len(ids) |->
                         ImageResponse(event_images[ImageRow(ids[p])])]
       IN IF ~q.success
          THEN ret' = [NoRet EXCEPT !.op = "search", !.code = 400,
                                    !.query = file_data,
                                    !.tolerance = tolerance]
          ELSE ret' = [NoRet EXCEPT !.op = "search", !.code = 200,
                                    !.query = file_data,
                                    !.tolerance = tolerance,
                                    !.scanned = TRUE,
                                    !.images = results,
                                    !.total = Len(results)]
  /\ UNCHANGED <<event_images, face_vectors, req, session, tasks>>

\* ----------------------------------------------------------- get_all_images
\* limit: int = Query(50, ge=1, le=100)
LimitMin == 1
LimitDefault == 50
LimitMax == 100
Limits == {LimitMin, LimitDefault, LimitMax}

\* skip: int = Query(0, ge=0)
Skips == 0..MaxSkip

\* a page that forgets the offset
PageWithoutOffset(images, skip, limit) ==
  SubSeq(images, 1, IF limit < Len(images) THEN limit ELSE Len(images))

\* db.query(EventImage).offset(skip).limit(limit).all(): the query has no
\* ORDER BY; the rows are taken in table order
Page(images, skip, limit) ==
  IF skip >= Len(images) THEN <<>>
  ELSE SubSeq(images, skip + 1,
              IF skip + limit < Len(images) THEN skip + limit
              ELSE Len(images))

get_all_images ==
  /\ \E skip \in Skips, limit \in Limits :
       LET images == Page(event_images, skip, limit)
           total == Len(event_images)
           results == [p \in 1..Len(images) |-> ImageResponse(images[p])]
       IN ret' = [NoRet EXCEPT !.op = "all", !.code = 200,
                               !.images = results, !.total = total,
                               !.skip = skip, !.limit = limit]
  /\ UNCHANGED <<event_images, face_vectors, req, session, tasks>>

\* ----------------------------------------------------------- specification
Next ==
  \/ UploadBegin
  \/ UploadInsert
  \/ UploadIngest
  \/ UploadCommit
  \/ process_image_task

Spec == Init /\ [][Next]_vars

\* ------------------------------------- searches between the ingestion steps
\* The API serves a search at any moment of an upload or between task runs.
\* A search that follows a search reads the tables the first one read, so
\* only the first of a run of searches is taken.
ServeNext ==
  \/ Next
  \/ ret.op # "search" /\ search_by_face

ServeSpec == Init /\ [][ServeNext]_vars

\* ------------------------------------------------ the search on any store
\* face_vectors has no foreign key to event_images: the search is checked on
\* every table content within the bounds, rows of deleted images included.
ImageIds == 1..Cardinality(Names)

ImageTables ==
  { SelectSeq([id \in ImageIds |->
                 EventImage(id, IF id = 1 THEN "a.jpg" ELSE "b.jpg", <<0>>)],
              LAMBDA img : img.id \in S) : S \in SUBSET ImageIds }

\* rows numbered per image in insertion order
VectorTables ==
  UNION { { [p \in 1..n |->
               FaceVector(g[p][1],
                          Cardinality({o \in 1..(p - 1) : g[o][1] = g[p][1]}),
                          g[p][2])] :
            g \in [1..n -> ImageIds \X Embeddings] } : n \in 0..MaxRows }

SearchInit ==
  /\ event_images \in ImageTables
  /\ face_vectors \in VectorTables
  /\ req = IdleReq
  /\ session = FreshSession
  /\ tasks = 0
  /\ ret = NoRet

SearchNext == search_by_face

SearchSpec == SearchInit /\ [][SearchNext]_vars

\* ------------------------------------------------ the listing on any store
PageNext == get_all_images

PageSpec == SearchInit /\ [][PageNext]_vars


\* ================================================================== claims
\* what the extractor yields for the stored bytes of an image
EncodingsOf(img) == extract_face_encodings(img.minio_path)

\* the set of positions of a sequence
Pos(seq) == 1..Len(seq)

\* C1: every image record's face_count equals the number of face_vectors
\* rows whose image_id is its id.
C1_FaceCountIsRowCount ==
  \A r \in Pos(event_images) :
    event_images[r].face_count =
      Len(VectorsOf(face_vectors, event_images[r].id))

\* C2: ingestion is all-or-nothing.  An image either has no row and
\* face_count 0, or face_count N and only whole batches of the N rows the
\* extractor produced for it; and no row of an earlier file is left pending
\* when the next file of a request is handled.
StoredAllOrNothing(img) ==
  LET own == VectorsOf(face_vectors, img.id)
      batch == NewVectors(img.id, EncodingsOf(img))
      n == Len(batch)
  IN \/ own = <<>> /\ img.face_count = 0
     \/ /\ n > 0
        /\ img.face_count = n
        /\ Len(own) % n = 0
        /\ \A p \in Pos(own) : own[p] = batch[((p - 1) % n) + 1]

C3_RedeliveryIdempotent ==
  [][\A r \in Pos(event_images) :
       (tasks' = tasks + 1 /\ ~event_images[r].face_encodings.null)
         => /\ VectorsOf(face_vectors', event_images[r].id) =
                 VectorsOf(face_vectors, event_images[r].id)
            /\ event_images'[r].face_count = event_images[r].face_count]_vars

\* C4: no two rows of face_vectors have the same (image_id, face_index).
C4_UniqueFaceIndex ==
  \A p, q \in Pos(face_vectors) :
    (p # q) => \/ face_vectors[p].image_id # face_vectors[q].image_id
               \/ face_vectors[p].face_index # face_vectors[q].face_index

\* C5: when the commit of an ingestion raises, the attempt is reported as a
\* failure with its reason and the image's face_count, stored and reported,
\* is what it was before.  Inline: the file gets an entry "processing
\* failed".  Task: the task returns status "error" with the error.
C5_FailureReported ==
  [][/\ (req.pc = "commit" /\ req' # req /\ face_vectors' = face_vectors)
          => LET up == IF req'.pc = "idle" THEN ret'.uploaded
                       ELSE req'.uploaded
                 before == event_images[ImageRow(req.image_id)].face_count
             IN /\ Len(up) = Len(req.uploaded) + 1
                /\ up[Len(up)].id = req.image_id
                /\ up[Len(up)].status = "processing failed"
                /\ up[Len(up)].face_count = before
                /\ event_images' = event_images
     /\ (tasks' = tasks + 1 /\ ret'.status = "error")
          => /\ ret'.error # ""
             /\ event_images' = event_images
             /\ face_vectors' = face_vectors]_vars

\* C6: an upload request never aborts: when it ends it returns the list
\* "uploaded" with one entry for every file of the request.
C6_BatchIsolated ==
  [][(req.pc # "idle" /\ req'.pc = "idle")
       => /\ ret'.op = "upload" /\ ret'.code = 200
          /\ Len(ret'.uploaded) = Len(req.uploaded) + req.remaining]_vars


\* ------------------------------------------------- claims about the search
\* the last handler to return was a search that found a face in its query
Searched == ret.op = "search" /\ ret.code = 200

\* the query encoding of the search that returned last
QueryEncoding == process_search_image(ret.query).encoding

\* the image ids of the response, in response order
ResultIds == [p \in Pos(ret.images) |-> ret.images[p].id]

Range(seq) == {seq[p] : p \in Pos(seq)}

Min(S) == CHOOSE x \in S : \A y \in S : x <= y

\* distance of the query to the row at scan position p
RowDistance(p) ==
  calculate_face_distance(QueryEncoding, face_vectors[p].encoding)

RowsOfImage(id) == {p \in Pos(face_vectors) : face_vectors[p].image_id = id}

\* the rows of an image within the tolerance of the search
MatchingRows(id) ==
  {p \in RowsOfImage(id) : RowDistance(p) <= ret.tolerance}

BestDistance(id) == Min({RowDistance(p) : p \in RowsOfImage(id)})

\* the first row, in scan order, at the image's best distance
BestRow(id) ==
  Min({p \in RowsOfImage(id) : RowDistance(p) = BestDistance(id)})

\* C7: the list returned by search_by_face holds each image id at most once.
C7_ResultDeduplicated ==
  Searched =>
    \A a, b \in Pos(ResultIds) : a # b => ResultIds[a] # ResultIds[b]

\* C7 witness: an image with two matching rows is in the result.
C7_Witness ==
  /\ Searched
  /\ \E a \in Pos(ResultIds) : Cardinality(MatchingRows(ResultIds[a])) >= 2

\* C8: the result is ordered by ascending distance of each image's best
\* row, images of equal best distance in the scan order of their best rows.
C8_OrderedByBestDistance ==
  Searched =>
    \A a, b \in Pos(ResultIds) :
      a < b =>
        \/ BestDistance(ResultIds[a]) < BestDistance(ResultIds[b])
        \/ /\ BestDistance(ResultIds[a]) = BestDistance(ResultIds[b])
           /\ BestRow(ResultIds[a]) < BestRow(ResultIds[b])

\* C8 witness: two images tie on their best distance, and the later one
\* also matches with a farther row that the scan meets before its best row.
C8_Witness ==
  /\ Searched
  /\ \E a, b \in Pos(ResultIds) :
       /\ a < b
       /\ BestDistance(ResultIds[a]) = BestDistance(ResultIds[b])
       /\ \E p \in MatchingRows(ResultIds[b]) :
            /\ RowDistance(p) > BestDistance(ResultIds[b])
            /\ p < BestRow(ResultIds[b])

\* C9: the ids returned are exactly the ids of the stored images that own a
\* row within the tolerance; rows of missing images add nothing; total is
\* the length of the list; an empty face_vectors gives an empty list.
C9_ResultIsMatchSet ==
  Searched =>
    /\ Range(ResultIds) =
         {id \in {event_images[r].id : r \in Pos(event_images)} :
            \E p \in RowsOfImage(id) : RowDistance(p) <= ret.tolerance}
    /\ ret.total = Len(ret.images)
    /\ face_vectors = <<>> => ret.images = <<>>

\* C9 witness: a row of a missing image matches, and an image is returned.
C9_Witness ==
  /\ Searched
  /\ ret.images # <<>>
  /\ \E p \in Pos(face_vectors) :
       /\ RowDistance(p) <= ret.tolerance
       /\ \A r \in Pos(event_images) :
            event_images[r].id # face_vectors[p].image_id

\* C10: every image returned at the tolerance of the search is returned at
\* every larger tolerance, for the same query and tables.
C10_MonotonicInTolerance ==
  Searched =>
    \A t2 \in Tolerances :
      t2 >= ret.tolerance =>
        Range(ResultIds) \subseteq
          Range(SearchResult(event_images, face_vectors, QueryEncoding, t2))

\* C10 witness: a search at the least tolerance returns an image, and the
\* greatest tolerance returns more.
C10_Witness ==
  /\ Searched
  /\ ret.tolerance = TolMin
  /\ ret.images # <<>>
  /\ Range(ResultIds) #
       Range(SearchResult(event_images, face_vectors, QueryEncoding, TolMax))

\* C11: a query image in which the extractor finds no face gets the 400
\* answer with no result and without a scan of face_vectors; otherwise the
\* search is the one for the first encoding in detection order.
C11_NoFaceInQuery ==
  ret.op = "search" =>
    LET found == extract_face_encodings(ret.query)
    IN IF found = <<>>
       THEN /\ ret.code = 400
            /\ ret.images = <<>> /\ ret.total = 0
            /\ ~ret.scanned
       ELSE /\ ret.code = 200
            /\ ret.scanned
            /\ ResultIds = SearchResult(event_images, face_vectors,
                                        found[1], ret.tolerance)

\* C11 witness: a query without a face is refused at the greatest tolerance
\* although both tables hold rows.
C11_Witness ==
  /\ ret.op = "search" /\ ret.code = 400
  /\ ret.tolerance = TolMax
  /\ face_vectors # <<>>
  /\ event_images # <<>>

\* ---------------------------------------------- claims about one ingestion
\* C12: a step that gives rows to an image that had none (a successful
\* ingestion, inline or by the task) leaves exactly one row per encoding the
\* extractor finds in the image, the k-th encoding in detection order at
\* face_index k-1, and face_count equal to their number.
C12_RowsInDetectionOrder ==
  [][\A r \in Pos(event_images) :
       LET img == event_images[r]
           found == EncodingsOf(img)
           own == VectorsOf(face_vectors', img.id)
       IN (VectorsOf(face_vectors, img.id) = <<>> /\ own # <<>>)
            => /\ Len(own) = Len(found)
               /\ \A k \in Pos(own) : /\ own[k].face_index = k - 1
                                      /\ own[k].encoding = found[k]
               /\ event_images'[r].face_count = Len(found)]_vars

\* C12 witness: the upload of a two-face image has returned, and the image
\* holds its two rows, numbered 0 and 1, and face_count 2.
C12_Witness ==
  /\ ret.op = "upload" /\ ret.code = 200
  /\ tasks = 0
  /\ \E r \in Pos(event_images) :
       LET own == VectorsOf(face_vectors, event_images[r].id)
           found == EncodingsOf(event_images[r])
       IN /\ Len(found) = 2 /\ found[1] # found[2]
          /\ Len(own) = 2
          /\ own[1].face_index = 0 /\ own[1].encoding = found[1]
          /\ own[2].face_index = 1 /\ own[2].encoding = found[2]
          /\ event_images[r].face_count = 2

\* the entries of the request in flight after a step: returned with the
\* response when the step ends the request, kept in "uploaded" otherwise
UploadedAfter == IF req'.pc = "idle" THEN ret'.uploaded ELSE req'.uploaded

\* the inline ingestion of a file in which the extractor finds no face: the
\* file gets the entry "processed - no faces found" with face_count 0, and
\* the image keeps face_count 0 and no row
InlineNoFaces ==
  (req.pc = "ingest" /\ req' # req
     /\ extract_face_encodings(req.file_data) = <<>>)
    => /\ UploadedAfter =
            Append(req.uploaded,
                   [id |-> req.image_id, filename |-> req.filename,
                    status |-> "processed - no faces found",
                    face_count |-> 0])
       /\ event_images'[ImageRow(req.image_id)].face_count = 0
       /\ VectorsOf(face_vectors', req.image_id) = <<>>

\* a delivery of process_image_task for a stored image in which the
\* extractor finds no face
TaskOnNoFaces ==
  /\ tasks' = tasks + 1
  /\ HasImage(ret'.image_id)
  /\ EncodingsOf(event_images[ImageRow(ret'.image_id)]) = <<>>

\* the task has written face_count = 0 and face_encodings = "[]" and
\* returned "no_faces" without an error
TaskNoFacesWritten ==
  LET after == event_images'[ImageRow(ret'.image_id)]
  IN /\ ret'.status = "no_faces" /\ ret'.error = ""
     /\ ret'.faces_found = 0
     /\ after.face_count = 0
     /\ after.face_encodings = [null |-> FALSE, json |-> <<>>]
     /\ VectorsOf(face_vectors', ret'.image_id) = <<>>

\* C13 as stated: an ingestion of an image in which the extractor finds no
\* face, inline or by the task, sets face_count to 0, writes no row and
\* reports the no-faces outcome, never a failure.
C13_NoFacesNeverFails ==
  [][/\ InlineNoFaces
     /\ TaskOnNoFaces => TaskNoFacesWritten]_vars

\* C13 amended: as stated, except that the task reports status "error" with
\* the database error when its commit of face_count = 0 raises, and then
\* leaves both tables as they were.
C13_NoFacesUnlessCommitRaises ==
  [][/\ InlineNoFaces
     /\ TaskOnNoFaces
          => \/ TaskNoFacesWritten
             \/ /\ ret'.status = "error"
                /\ ret'.error = "OperationalError"
                /\ event_images' = event_images
                /\ face_vectors' = face_vectors]_vars

\* C13 witness: a file without a face has its "no faces found" entry in the
\* request in flight, and the task has returned "no_faces" for that image.
C13_Witness ==
  /\ ret.op = "task" /\ ret.status = "no_faces"
  /\ HasImage(ret.image_id)
  /\ EncodingsOf(event_images[ImageRow(ret.image_id)]) = <<>>
  /\ ~event_images[ImageRow(ret.image_id)].face_encodings.null
  /\ \E p \in Pos(req.uploaded) :
       /\ req.uploaded[p].id = ret.image_id
       /\ req.uploaded[p].status = "processed - no faces found"

\* ------------------------------------------------ claims about the listing
\* C14: a listing with skip s >= 0 and limit l in 1..100 of a table of n
\* images returns min(l, max(0, n - s)) images, total = n whatever s and l
\* are, and s and l themselves, and leaves both tables as they were.
C14_Pagination ==
  [][(ret'.op = "all" /\ ret' # ret)
       => LET n == Len(event_images)
              s == ret'.skip
              l == ret'.limit
              rest == IF n - s > 0 THEN n - s ELSE 0
          IN /\ s >= 0 /\ l >= LimitMin /\ l <= LimitMax
             /\ Len(ret'.images) = IF l < rest THEN l ELSE rest
             /\ ret'.total = n
             /\ ret'.code = 200
             /\ event_images' = event_images
             /\ face_vectors' = face_vectors]_vars

\* C14 witness: skip = 0 and limit = 1 on two images returns one image and
\* total = 2; the face_vectors table is not empty.
C14_Witness ==
  /\ ret.op = "all"
  /\ Len(event_images) = 2 /\ face_vectors # <<>>
  /\ ret.skip = 0 /\ ret.limit = LimitMin
  /\ Len(ret.images) = 1 /\ ret.total = 2

\* --------------------------------------- inline and deferred ingestion
\* the rows and the face_count of an image in given tables
Ingested(images, vectors, image_id) ==
  [rows |-> VectorsOf(vectors, image_id),
   face_count |->
     images[CHOOSE r \in Pos(images) : images[r].id = image_id].face_count]

\* the image of the file in hand is as upload_images created it
FreshImage ==
  Ingested(event_images, face_vectors, req.image_id) =
    [rows |-> <<>>, face_count |-> 0]

\* what the inline ingestion leaves for the image of the file in hand
InlineIngested == Ingested(event_images', face_vectors', req.image_id)

\* what process_image_task, run from the same tables on the same image with
\* the same outcome of its commit, leaves for it
TaskIngested(dbOk) ==
  Ingested(TaskImages(req.image_id, dbOk), TaskVectors(req.image_id, dbOk),
           req.image_id)

\* C15: the step that ends the inline ingestion of a freshly created image
\* leaves the rows and the face_count that process_image_task leaves from
\* the same tables: with faces and a commit that succeeds, with faces and a
\* commit that raises, and without faces.
C15_InlineEqualsTask ==
  [][/\ (req.pc = "commit" /\ req' # req /\ FreshImage)
          => InlineIngested = TaskIngested(face_vectors' # face_vectors)
     /\ (req.pc = "ingest" /\ req'.pc # "commit" /\ req' # req /\ FreshImage)
          => /\ InlineIngested = TaskIngested(TRUE)
             /\ InlineIngested = TaskIngested(FALSE)]_vars

\* C15 witness: the upload of a two-face image has returned its entry, and
\* the image holds two rows and face_count 2, with no task delivered.
C15_Witness ==
  /\ tasks = 0
  /\ ret.op = "upload" /\ ret.code = 200
  /\ \E p \in Pos(ret.uploaded) :
       /\ ret.uploaded[p].status = "processed - faces found"
       /\ Ingested(event_images, face_vectors, ret.uploaded[p].id).face_count = 2
       /\ Len(Ingested(event_images, face_vectors, ret.uploaded[p].id).rows) = 2

\* C16: a search, whatever its query, tolerance and outcome, leaves every
\* image record and every face_vectors row as it was, and the upload in
\* flight and its Session too, so the ingestion steps around it go on from
\* the state they would have had without it.
C16_SearchReadOnly ==
  [][(ret'.op = "search" /\ ret' # ret)
       => /\ event_images' = event_images
          /\ face_vectors' = face_vectors
          /\ req' = req
          /\ session' = session
          /\ tasks' = tasks]_vars

\* C16 witness: a search has returned an image while an upload holds rows
\* that it has added and not yet committed.
C16_Witness ==
  /\ Searched
  /\ ret.images # <<>>
  /\ req.pc = "commit"
  /\ session.new # <<>>

====
